---- MODULE Spec2Model ----
\* A model of the encoder-decoder Transformer of src/model.py and of the greedy
\* decoding loop of src/train.py.
\*
\*   Spec       the greedy_decode loop (src/train.py:21-48) and its caller
\*              run_validation (src/train.py:50-72). The model object is a
\*              parameter of greedy_decode: each call into it either returns (with
\*              any next-token prediction) or raises.
\*   SpecModel  the components of src/model.py: construction (build_transformer)
\*              and the forward routines, on small integer tensors.
EXTENDS Integers, Sequences, FiniteSets, TLC

\* ------------------------------------------------------------------ bounds

\* max_len ranges over 0..MaxLenBound
MaxLenBound == 3
\* the decode loop is explored while the target holds fewer than SeqCap ids
SeqCap == 5
\* source.size(0) ranges over 1..MaxBatch
MaxBatch == 2
\* the target vocabulary is 0..VocabSize-1
VocabSize == 5

\* ------------------------------------------------------- program constants

\* special_tokens = ['[UNK]', '[PAD]', '[EOS]', '[SOS]'] get the ids 0, 1, 2, 3
eos_idx == 2
sos_idx == 3

Vocab == 0..(VocabSize - 1)

\* ===================================================== greedy_decode (Spec)

VARIABLES
    pc,             \* "Start", "Generating", "Done" or "Raised"
    entry,          \* the caller: "direct" or "run_validation"
    error,          \* the exception that ended the call, "None" otherwise
    max_len,        \* greedy_decode's max_len argument
    batch,          \* source.size(0)
    encoder_output, \* the memory held by the local encoder_output (0: not yet set)
    encodeCalls,    \* number of model.encode calls made so far
    decoder_input,  \* the target ids accumulated so far
    decodeCalls,    \* number of model.decode calls made so far (decode steps)
    decode_memory,  \* the memory argument of the latest model.decode call
    prefix_kept,    \* every step so far kept the ids accumulated before it
    after_eos,      \* an id was appended after an end-of-sequence id
    att,            \* the latest call of the static attention routine
    transformer,    \* the build_transformer call: its arguments, then its result
    site,           \* the call of src/train.py made on the built model
    pos_enc,        \* a PositionalEncoding component (its fields)
    mha,            \* a MultiHeadAttentionBlock component (its fields)
    layer_norm,     \* a LayerNormalization component (its fields)
    fwd             \* the forward call made on one of the three components

decodeVars ==
    <<pc, entry, error, max_len, batch, encoder_output, encodeCalls,
      decoder_input, decodeCalls, decode_memory, prefix_kept, after_eos>>

buildVars == <<transformer, site>>

forwardVars == <<pos_enc, mha, layer_norm, fwd>>

modelVars == <<att, buildVars, forwardVars>>

vars == <<decodeVars, modelVars>>

\* A call into the model object returns or raises.
CallOutcomes == {"returns", "raises"}

InitDecode ==
    /\ pc = "Start"
    /\ entry \in {"direct", "run_validation"}
    /\ error = "None"
    /\ max_len \in 0..MaxLenBound
    /\ batch \in 1..MaxBatch
    /\ encoder_output = 0
    /\ encodeCalls = 0
    /\ decoder_input = <<>>
    /\ decodeCalls = 0
    /\ decode_memory = 0
    /\ prefix_kept = TRUE
    /\ after_eos = FALSE

\* run_validation, src/train.py:50-72. model.evaluate() is no method of nn.Module
\* (AttributeError, line 51); with a model object that has one, `with
\* torch.no_grad:` names the class, not an instance, and raises (line 55). The
\* batch-size assertion of line 61 and the greedy_decode call of line 63 are
\* never reached.
RunValidation ==
    /\ pc = "Start"
    /\ entry = "run_validation"
    /\ pc' = "Raised"
    /\ error' \in {"AttributeError", "TypeError"}
    /\ UNCHANGED <<entry, max_len, batch, encoder_output, encodeCalls,
                   decoder_input, decodeCalls, decode_memory, prefix_kept,
                   after_eos>>
    /\ UNCHANGED modelVars

\* src/train.py:22-23, tokenizer_tgt.token_to_ids('[SOS]') and ('[EOS]'). The
\* tokenizer is the caller's object: a tokenizers.Tokenizer has token_to_id but
\* no token_to_ids, so the lookup raises AttributeError on it; on an object that
\* defines token_to_ids the lookup returns the ids of line 83.
TokenLookups == {"returns", "raises"}

\* src/train.py:22-28, the Start state: the special ids, one model.encode call,
\* the target initialised to the single start-of-sequence id. The k-th encode
\* call of a run returns memory k.
StartEncode ==
    /\ pc = "Start"
    /\ entry = "direct"
    /\ \E lookup \in TokenLookups, outcome \in CallOutcomes :
        IF lookup = "raises"
        THEN /\ pc' = "Raised"
             /\ error' = "AttributeError"
             /\ UNCHANGED <<encoder_output, encodeCalls, decoder_input>>
        ELSE IF outcome = "raises"
        THEN /\ pc' = "Raised"
             /\ error' = "TypeError"
             /\ encodeCalls' = encodeCalls + 1
             /\ UNCHANGED <<encoder_output, decoder_input>>
        ELSE /\ pc' = "Generating"
             /\ encodeCalls' = encodeCalls + 1
             /\ encoder_output' = encodeCalls + 1
             /\ decoder_input' = <<sos_idx>>
             /\ UNCHANGED error
    /\ UNCHANGED <<entry, max_len, batch, decodeCalls, decode_memory,
                   prefix_kept, after_eos>>
    /\ UNCHANGED modelVars

\* src/train.py:30, the loop's length test.
LengthBreakOffByOne(di, ml) == Len(di) = ml + 1
LengthBreak(di, ml) == Len(di) = ml

\* src/train.py:45, the loop's end-of-sequence test on the id just appended.
EosBreakOnSos(next_word) == next_word = sos_idx
EosBreak(next_word) == next_word = eos_idx

\* Whether the ids of `old` are the first ids of `new`.
IsPrefix(old, new) ==
    /\ Len(old) <= Len(new)
    /\ \A i \in 1..Len(old) : new[i] = old[i]

\* src/train.py:29-46, one iteration of the loop: the length test, the causal
\* mask, one model.decode call on the memory of the Start state, project, the
\* arg-max id (next_word, one element per sequence of the decoder's output),
\* next_word.item() (raises unless next_word has one element), the append (the
\* id is written into a tensor of the source's integer dtype, which holds every
\* vocabulary id unchanged), the end-of-sequence test. `reencode` is whether
\* the iteration calls model.encode.
LoopIteration(reencode) ==
    /\ pc = "Generating"
    /\ IF LengthBreak(decoder_input, max_len)
       THEN /\ pc' = "Done"
            /\ UNCHANGED <<error, encoder_output, encodeCalls, decoder_input,
                           decodeCalls, decode_memory, prefix_kept, after_eos>>
       ELSE /\ Len(decoder_input) < SeqCap
            /\ decodeCalls' = decodeCalls + 1
            /\ encodeCalls' = IF reencode THEN encodeCalls + 1 ELSE encodeCalls
            /\ encoder_output' = IF reencode THEN encodeCalls + 1 ELSE encoder_output
            /\ decode_memory' = encoder_output'
            /\ \E outcome \in CallOutcomes, out_batch \in {1, batch}, next_word \in Vocab :
                IF outcome = "raises"
                THEN /\ pc' = "Raised"
                     /\ error' = "TypeError"
                     /\ UNCHANGED <<decoder_input, prefix_kept, after_eos>>
                ELSE IF out_batch # 1
                THEN /\ pc' = "Raised"
                     /\ error' = "RuntimeError"
                     /\ UNCHANGED <<decoder_input, prefix_kept, after_eos>>
                ELSE /\ decoder_input' = Append(decoder_input, next_word)
                     /\ prefix_kept' = (prefix_kept /\ IsPrefix(decoder_input, decoder_input'))
                     /\ after_eos' = (after_eos \/ \E i \in 2..Len(decoder_input) :
                                                       decoder_input[i] = eos_idx)
                     /\ pc' = IF EosBreak(next_word) THEN "Done" ELSE "Generating"
                     /\ UNCHANGED error
    /\ UNCHANGED <<entry, max_len, batch>>
    /\ UNCHANGED modelVars

GenerateStepReencode == LoopIteration(TRUE)
GenerateStep == LoopIteration(FALSE)

\* ============================================ tensors on small integers

\* Tensor entries are integers. A weight of the softmax is held in thousandths
\* (1000 is the weight 1).

RECURSIVE SumSeq(_)
SumSeq(s) == IF s = <<>> THEN 0 ELSE s[1] + SumSeq(Tail(s))

RECURSIVE MaxSeq(_)
MaxSeq(s) == IF Len(s) = 1 THEN s[1]
             ELSE LET m == MaxSeq(Tail(s)) IN IF s[1] >= m THEN s[1] ELSE m

Dot(a, b) == SumSeq([c \in 1..Len(a) |-> a[c] * b[c]])

\* math.sqrt on the head sizes of the model: the integer square root (exact when
\* d_k is a perfect square).
Sqrt(n) == CHOOSE r \in 0..n : r * r <= n /\ (r + 1) * (r + 1) > n

\* exp(-n) in millionths, for an integer n >= 0; it underflows to 0, as the
\* floating-point exp does for the fill value.
RECURSIVE ExpNeg(_)
ExpNeg(n) == IF n > 14 THEN 0
             ELSE IF n = 0 THEN 1000000
             ELSE (ExpNeg(n - 1) * 1000) \div 2718

\* Tensor.softmax(dim = -1) of one row of scores, in thousandths.
SoftmaxRow(row) ==
    LET m == MaxSeq(row)
        e == [j \in 1..Len(row) |-> ExpNeg(m - row[j])]
    IN  [j \in 1..Len(row) |-> (e[j] * 1000) \div SumSeq(e)]

\* ================================= MultiHeadAttentionBlock.attention (static)

\* src/model.py:112, the fill value of masked_fill
MaskFill == -1000000000

\* Tensor.masked_fill(mask == 0, value): a NEW tensor; the receiver is unchanged.
\* t[h][i][j] over heads, query and key positions; the mask m[i][j] broadcasts
\* over the heads.
masked_fill(t, m, value) ==
    [h \in DOMAIN t |->
        [i \in DOMAIN t[h] |->
            [j \in DOMAIN t[h][i] |-> IF m[i][j] = 0 THEN value ELSE t[h][i][j]]]]

\* nn.Dropout(p) with the default p = 0.1 of build_transformer: the identity in
\* eval mode; in train mode the entries with keep = 0 are zeroed and the others
\* scaled by 1 / (1 - p).
Dropout(d, t) ==
    IF d.kind = "eval" THEN t
    ELSE [h \in DOMAIN t |->
            [i \in DOMAIN t[h] |->
                [j \in DOMAIN t[h][i] |->
                    IF d.keep[h][i][j] = 1 THEN (t[h][i][j] * 10) \div 9 ELSE 0]]]

\* src/model.py:106-116. query[h][i], key[h][j], value[h][j] are vectors of d_k
\* entries. Line 112 calls masked_fill and drops its result, so line 113 takes the
\* softmax of the unfilled scores. Returns the output, the returned attention
\* weights, and (softmax_in) the tensor whose softmax was taken.
attention(query, key, value, mask, dropout) ==
    LET d_k == Len(query[1][1])
        scores == [h \in DOMAIN query |->
                      [i \in DOMAIN query[h] |->
                          [j \in DOMAIN key[h] |->
                              Dot(query[h][i], key[h][j]) \div Sqrt(d_k)]]]
        filled == IF mask.given THEN masked_fill(scores, mask.m, MaskFill) ELSE scores
        attention_scores == scores
        soft == [h \in DOMAIN attention_scores |->
                    [i \in DOMAIN attention_scores[h] |->
                        SoftmaxRow(attention_scores[h][i])]]
        dropped == IF dropout.kind # "None" THEN Dropout(dropout, soft) ELSE soft
    IN  [out |-> [h \in DOMAIN dropped |->
                    [i \in DOMAIN dropped[h] |->
                        [c \in 1..d_k |->
                            SumSeq([j \in DOMAIN value[h] |->
                                       dropped[h][i][j] * value[h][j][c]])]]],
         attention_scores |-> dropped,
         softmax_in |-> attention_scores,
         filled |-> filled]

\* --------------------------------------------------- bounds of the tensors

\* tensor entries range over 0..MaxEntry
MaxEntry == 1
\* the key (and value) sequences hold KeyLen positions
KeyLen == 2
\* the query sequences hold 1..MaxQueryLen positions
MaxQueryLen == 2
\* heads of a direct call of the static attention routine
CallHeads == 1

Entries == 0..MaxEntry

\* The tensors of shape (heads, positions, width) over Entries.
Tensors(heads, positions, width) ==
    [1..heads -> [1..positions -> [1..width -> Entries]]]

NoMask == [given |-> FALSE, m |-> <<>>]
Masks(nq, nk) ==
    {NoMask} \cup {[given |-> TRUE, m |-> m] : m \in [1..nq -> [1..nk -> {0, 1}]]}

Dropouts(heads, nq, nk) ==
    {[kind |-> "None", keep |-> <<>>], [kind |-> "eval", keep |-> <<>>]}
    \cup {[kind |-> "train", keep |-> k] :
            k \in [1..heads -> [1..nq -> [1..nk -> {0, 1}]]]}

\* The arguments of a call that is still to be made: any small tensors, with or
\* without a mask, with or without dropout.
AttentionArgs ==
    UNION {[state : {"args"},
            query : Tensors(CallHeads, nq, 1),
            key : Tensors(CallHeads, KeyLen, 1),
            value : Tensors(CallHeads, KeyLen, 1),
            mask : Masks(nq, KeyLen),
            dropout : Dropouts(CallHeads, nq, KeyLen),
            ret : {<<>>}] : nq \in 1..MaxQueryLen}

\* No call of the routine is under way.
NoAttention ==
    [state |-> "idle", query |-> <<>>, key |-> <<>>, value |-> <<>>, mask |-> NoMask,
     dropout |-> [kind |-> "None", keep |-> <<>>], ret |-> <<>>]

\* The call MultiHeadAttentionBlock.attention(query, key, value, mask, dropout).
AttentionCall ==
    /\ att.state = "args"
    /\ att' = [att EXCEPT !.state = "returned",
                          !.ret = attention(att.query, att.key, att.value,
                                            att.mask, att.dropout)]
    /\ UNCHANGED <<decodeVars, buildVars, forwardVars>>

\* ======================================================== the components

\* Results of a constructor or of a forward call: the value, or the exception
\* raised.
Ok(v) == [error |-> "None", value |-> v]
Err(e) == [error |-> e, value |-> <<>>]

Min(a, b) == IF a <= b THEN a ELSE b

\* ---------------------------------------------------- PositionalEncoding

\* src/model.py:19-35. The table has seq_len rows of d_model entries; entry
\* (p, c) is held as the expression the code computes: sin or cos, the position,
\* the index of the frequency. div_term holds ceil(d_model / 2) frequencies, the
\* odd columns pe[:, 1::2] are floor(d_model / 2): for an odd d_model the
\* assignment of line 32 raises (shape mismatch).
PositionalEncodingInit(d_model, seq_len) ==
    IF (d_model + 1) \div 2 # d_model \div 2
    THEN Err("RuntimeError")
    ELSE Ok([d_model |-> d_model,
             seq_len |-> seq_len,
             pe |-> [p \in 1..seq_len |->
                       [c \in 1..d_model |->
                           <<IF c % 2 = 1 THEN "sin" ELSE "cos", p - 1, (c - 1) \div 2>>]]])

\* src/model.py:38, `(...).requires_grad(False)`: requires_grad is a bool
\* attribute of a tensor, and calling a bool raises TypeError.
RequiresGradInPlace(t) == Ok(t)
RequiresGradCall(t) == Err("TypeError")

\* x + pe under broadcasting, on the sequence dimension: the lengths agree or one
\* of them is 1. x is held by its shape [batch, len, d_model].
AddPositional(x, rows) ==
    IF x.len = Len(rows) \/ Len(rows) = 1 \/ x.len = 1
    THEN Ok([batch |-> x.batch,
             len |-> IF x.len >= Len(rows) THEN x.len ELSE Len(rows),
             d_model |-> x.d_model,
             added |-> rows])
    ELSE Err("RuntimeError")

\* src/model.py:37-39. The slice self.pe[:, :x.shape[1], :] keeps at most seq_len
\* rows and never raises; the requires_grad call is evaluated before the sum.
PositionalEncodingForward(self, x) ==
    LET rows == SubSeq(self.pe, 1, Min(x.len, self.seq_len))
        fixed == RequiresGradCall(rows)
    IN  IF fixed.error # "None" THEN Err(fixed.error)
        ELSE IF x.d_model # self.d_model THEN Err("RuntimeError")
        ELSE AddPositional(x, fixed.value)

\* ---------------------------------------------------- LayerNormalization

\* src/model.py:55-59: the attributes construction defines.
LayerNormalizationInit ==
    [attrs |-> {"eps", "alpha", "beta"}, alpha |-> 1, beta |-> 0]

\* The attributes LayerNormalization.forward reads, src/model.py:72-74.
LayerNormalizationReads == {"alpha", "bias"}

\* The integer square root, by bisection on lo..hi.
RECURSIVE ISqrt(_, _, _)
ISqrt(n, lo, hi) ==
    IF lo >= hi THEN lo
    ELSE LET mid == (lo + hi + 1) \div 2
         IN  IF mid * mid <= n THEN ISqrt(n, mid, hi) ELSE ISqrt(n, lo, mid - 1)

\* src/model.py:61-76 on one token x (a vector of integers), in thousandths: mean
\* and std (unbiased) are computed, then line 72 reads self.alpha and line 73
\* reads self.bias, and a read of an attribute construction did not define
\* raises AttributeError. eps = 10**-6 is below the resolution.
LayerNormalizationForward(self, x) ==
    LET n == Len(x)
        mean == (SumSeq(x) * 1000) \div n
        dev == [c \in 1..n |-> x[c] * 1000 - mean]
        var == IF n > 1 THEN SumSeq([c \in 1..n |-> dev[c] * dev[c]]) \div (n - 1) ELSE 0
        std == ISqrt(var, 0, 46340)
    IN  IF ~(LayerNormalizationReads \subseteq self.attrs)
        THEN Err("AttributeError")
        ELSE Ok([c \in 1..n |->
                    IF std = 0 THEN self.beta * 1000
                    ELSE (self.alpha * dev[c] * 1000) \div std + self.beta * 1000])

\* ------------------------------------------------ MultiHeadAttentionBlock

\* src/model.py:92-104: the assertion, d_k, the four linear layers. No
\* attention_scores attribute exists until forward sets it.
MultiHeadAttentionBlockInit(d_model, h, w_q, w_k, w_v, w_o) ==
    IF d_model % h # 0
    THEN Err("AssertionError")
    ELSE Ok([d_model |-> d_model, h |-> h, d_k |-> d_model \div h,
             w_q |-> w_q, w_k |-> w_k, w_v |-> w_v, w_o |-> w_o,
             attrs |-> {"d_model", "h", "d_k", "w_q", "w_k", "w_v", "w_o", "dropout"},
             attention_scores |-> <<>>])

\* nn.Linear on one vector: W x + b.
Linear(l, x) == [r \in 1..Len(l.W) |-> Dot(l.W[r], x) + l.b[r]]

\* (seq, d_model) --> (h, seq, d_k): view(.., h, d_k).transpose(1, 2)
SplitHeads(t, h, d_k) ==
    [a \in 1..h |-> [i \in 1..Len(t) |-> [c \in 1..d_k |-> t[i][(a - 1) * d_k + c]]]]

\* (h, seq, d_k) --> (seq, h * d_k): transpose(1, 2).contiguous().view(..)
MergeHeads(t, h, d_k) ==
    [i \in 1..Len(t[1]) |->
        [c \in 1..(h * d_k) |-> t[((c - 1) \div d_k) + 1][i][((c - 1) % d_k) + 1]]]

\* src/model.py:118-132: returns the block after the call (line 128 stores the
\* attention weights on it) and the output.
MultiHeadAttentionBlockForward(self, q, k, v, mask, dropout) ==
    LET query == SplitHeads([i \in 1..Len(q) |-> Linear(self.w_q, q[i])], self.h, self.d_k)
        key == SplitHeads([i \in 1..Len(k) |-> Linear(self.w_k, k[i])], self.h, self.d_k)
        value == SplitHeads([i \in 1..Len(v) |-> Linear(self.w_v, v[i])], self.h, self.d_k)
        ret == attention(query, key, value, mask, dropout)
        x == MergeHeads(ret.out, self.h, self.d_k)
    IN  [self |-> [self EXCEPT !.attention_scores = ret.attention_scores,
                               !.attrs = self.attrs \cup {"attention_scores"}],
         out |-> [i \in 1..Len(x) |-> Linear(self.w_o, x[i])]]

\* ------------------------------------- blocks, stacks and the Transformer

\* Activations of the routing model are held as the list of the transforms
\* applied so far, latest first, ending in the name of the input tensor.
Res(e, v, log) == [error |-> e, value |-> v, attn |-> log]

\* A Python call with positional arguments only: the arguments are bound to the
\* parameters in order, and a call with too few or too many raises TypeError.
Bind(params, args) ==
    IF Len(args) # Len(params) THEN Err("TypeError") ELSE Ok(args)

\* LayerNormalization.forward on an activation of the routing model.
NormOf(norm, x) ==
    IF ~(LayerNormalizationReads \subseteq norm.attrs)
    THEN Err("AttributeError")
    ELSE Ok(<<"norm">> \o x)

\* PositionalEncoding.forward on an activation of `len` positions.
PosOf(pos, x, len) ==
    LET r == PositionalEncodingForward(
                 pos, [batch |-> 1, len |-> len, d_model |-> pos.d_model])
    IN  IF r.error # "None" THEN Err(r.error) ELSE Ok(<<"pos">> \o x)

\* The parameters (after self) of the forward routines and of the Transformer's
\* operations: src/model.py:166, 194, 222, 227, 232.
Parameters(attr) ==
    IF attr = "encoder" THEN <<"x", "mask">>
    ELSE IF attr = "decoder" THEN <<"x", "encoder_output", "src_mask", "tgt_mask">>
    ELSE IF attr = "encode" THEN <<"src", "src_mask">>
    ELSE IF attr = "decode" THEN <<"encoder_output", "src", "tgt", "src_mask", "tgt_mask">>
    ELSE IF attr = "projection" THEN <<"x">>
    ELSE <<>>

\* src/model.py:141-142 with src/model.py:154-157: self.norm(x) is evaluated
\* first in each residual connection; self-attention on (x, x, x, src_mask),
\* then the feed-forward block.
EncoderBlockForward(norm, x, src_mask) ==
    LET n0 == NormOf(norm, x)
        x1 == <<"self_attention">> \o x
        n1 == NormOf(norm, x1)
    IN  IF n0.error # "None" THEN Res(n0.error, <<>>, <<>>)
        ELSE IF n1.error # "None" THEN Res(n1.error, <<>>, <<>>)
        ELSE Res("None", <<"feed_forward">> \o x1,
                 <<[kind |-> "self", q |-> n0.value, k |-> n0.value,
                    v |-> n0.value, mask |-> src_mask]>>)

\* src/model.py:180-185: self-attention on (x, x, x, tgt_mask), cross-attention
\* on (x, encoder_output, encoder_output, src_mask), then feed-forward.
DecoderBlockForward(norm, x, enc_output, src_mask, tgt_mask) ==
    LET n0 == NormOf(norm, x)
        x1 == <<"self_attention">> \o x
        n1 == NormOf(norm, x1)
        x2 == <<"cross_attention">> \o x1
        n2 == NormOf(norm, x2)
    IN  IF n0.error # "None" THEN Res(n0.error, <<>>, <<>>)
        ELSE IF n1.error # "None" THEN Res(n1.error, <<>>, <<>>)
        ELSE IF n2.error # "None" THEN Res(n2.error, <<>>, <<>>)
        ELSE Res("None", <<"feed_forward">> \o x2,
                 <<[kind |-> "self", q |-> n0.value, k |-> n0.value,
                    v |-> n0.value, mask |-> tgt_mask],
                   [kind |-> "cross", q |-> n1.value, k |-> enc_output,
                    v |-> enc_output, mask |-> src_mask]>>)

\* src/model.py:166-169: the layers in order, then the final norm.
RECURSIVE EncoderLayers(_, _, _, _)
EncoderLayers(n, norm, x, mask) ==
    IF n = 0
    THEN LET f == NormOf(norm, x) IN Res(f.error, f.value, <<>>)
    ELSE LET r == EncoderBlockForward(norm, x, mask)
         IN  IF r.error # "None" THEN r
             ELSE LET rest == EncoderLayers(n - 1, norm, r.value, mask)
                  IN  Res(rest.error, rest.value, r.attn \o rest.attn)

EncoderForward(M, args) ==
    LET b == Bind(Parameters("encoder"), args)
    IN  IF b.error # "None" THEN Res(b.error, <<>>, <<>>)
        ELSE EncoderLayers(M.N, M.norm, args[1], args[2])

\* src/model.py:194-197: the layers in order, then the final norm.
RECURSIVE DecoderLayers(_, _, _, _, _, _)
DecoderLayers(n, norm, x, enc_output, src_mask, tgt_mask) ==
    IF n = 0
    THEN LET f == NormOf(norm, x) IN Res(f.error, f.value, <<>>)
    ELSE LET r == DecoderBlockForward(norm, x, enc_output, src_mask, tgt_mask)
         IN  IF r.error # "None" THEN r
             ELSE LET rest == DecoderLayers(n - 1, norm, r.value, enc_output,
                                            src_mask, tgt_mask)
                  IN  Res(rest.error, rest.value, r.attn \o rest.attn)

DecoderForward(M, args) ==
    LET b == Bind(Parameters("decoder"), args)
    IN  IF b.error # "None" THEN Res(b.error, <<>>, <<>>)
        ELSE DecoderLayers(M.N, M.norm, args[1], args[2], args[3], args[4])

\* src/model.py:222-225
TransformerEncode(M, args, len) ==
    LET b == Bind(Parameters("encode"), args)
        src == PosOf(M.src_pos, <<"src_embed">> \o args[1], len)
    IN  IF b.error # "None" THEN Res(b.error, <<>>, <<>>)
        ELSE IF src.error # "None" THEN Res(src.error, <<>>, <<>>)
        ELSE EncoderForward(M, <<src.value, args[2]>>)

\* src/model.py:227-230: five parameters, and five arguments handed to the
\* decoder.
TransformerDecode(M, args, len) ==
    LET b == Bind(Parameters("decode"), args)
        tgt == PosOf(M.tgt_pos, <<"tgt_embed">> \o args[3], len)
    IN  IF b.error # "None" THEN Res(b.error, <<>>, <<>>)
        ELSE IF tgt.error # "None" THEN Res(tgt.error, <<>>, <<>>)
        ELSE DecoderForward(M, <<args[1], args[2], tgt.value, args[4], args[5]>>)

\* src/model.py:232-233
TransformerProjection(M, args) ==
    LET b == Bind(Parameters("projection"), args)
    IN  IF b.error # "None" THEN Res(b.error, <<>>, <<>>)
        ELSE Res("None", <<"projection_layer">> \o args[1], <<>>)

\* src/model.py:214-233: what an attribute access on a Transformer finds.
TransformerAttrs ==
    {"encoder", "decoder", "src_embed", "tgt_embed", "src_pos", "tgt_pos",
     "projection_layer", "encode", "decode", "projection"}

\* src/model.py:235-269: the two positional tables, N encoder blocks and N decoder
\* blocks (each constructing its attention blocks), the stacks.
build_transformer(src_seq_len, tgt_seq_len, N, h, d_model, params) ==
    LET src_pos == PositionalEncodingInit(d_model, src_seq_len)
        tgt_pos == PositionalEncodingInit(d_model, tgt_seq_len)
        block == MultiHeadAttentionBlockInit(d_model, h, params, params, params, params)
    IN  IF src_pos.error # "None" THEN Err(src_pos.error)
        ELSE IF tgt_pos.error # "None" THEN Err(tgt_pos.error)
        ELSE IF N >= 1 /\ block.error # "None" THEN Err(block.error)
        ELSE Ok([N |-> N, h |-> h, d_model |-> d_model,
                 src_pos |-> src_pos.value, tgt_pos |-> tgt_pos.value,
                 encoder_blocks |-> [i \in 1..N |-> block.value],
                 decoder_blocks |-> [i \in 1..N |->
                     [self_attention_block |-> block.value,
                      cross_attention_block |-> block.value]],
                 norm |-> LayerNormalizationInit,
                 attrs |-> TransformerAttrs])

\* A call model.<attr>(args) on a built Transformer, on sequences of `len`
\* positions.
ModelCall(M, attr, args, len) ==
    IF attr \notin M.attrs THEN Res("AttributeError", <<>>, <<>>)
    ELSE IF attr = "encode" THEN TransformerEncode(M, args, len)
    ELSE IF attr = "decode" THEN TransformerDecode(M, args, len)
    ELSE IF attr = "projection" THEN TransformerProjection(M, args)
    ELSE IF attr = "encoder" THEN EncoderForward(M, args)
    ELSE IF attr = "decoder" THEN DecoderForward(M, args)
    ELSE Res("TypeError", <<>>, <<>>)

\* The calls src/train.py makes on the model: greedy_decode (lines 26, 37, 40)
\* and the training loop (lines 175-177).
CallSites ==
    {[line |-> 26, attr |-> "encode", args |-> <<<<"src_ids">>, <<"src_mask">>>>],
     [line |-> 37, attr |-> "decode",
      args |-> <<<<"memory">>, <<"src_mask">>, <<"tgt_ids">>, <<"tgt_mask">>>>],
     [line |-> 40, attr |-> "project", args |-> <<<<"hidden">>>>],
     [line |-> 175, attr |-> "encoder", args |-> <<<<"src_ids">>, <<"src_mask">>>>],
     [line |-> 176, attr |-> "decoder",
      args |-> <<<<"memory">>, <<"src_mask">>, <<"tgt_ids">>, <<"tgt_mask">>>>],
     [line |-> 177, attr |-> "projection", args |-> <<<<"hidden">>>>]}

\* ------------------------------------------- bounds of the configurations

\* N ranges over 0..MaxLayers
MaxLayers == 2
\* h ranges over 1..MaxHeads
MaxHeads == 3
\* d_model ranges over 1..MaxDModel
MaxDModel == 4
\* seq_len ranges over 1..MaxSeqLen
MaxSeqLen == 3
\* the inputs of a forward call hold 1..MaxInputLen positions
MaxInputLen == 5

\* nn.Linear(n, n) with the identity weight and no bias: the initial parameters
\* play no part in construction or routing.
IdentityLinear(n) ==
    [W |-> [r \in 1..n |-> [c \in 1..n |-> IF r = c THEN 1 ELSE 0]],
     b |-> [r \in 1..n |-> 0]]

NoTransformer ==
    [state |-> "idle", N |-> 0, h |-> 1, d_model |-> 2, seq_len |-> 1, ret |-> Err("None")]

NoSite == [state |-> "idle", line |-> 0, attr |-> "", args |-> <<>>, len |-> 0,
           ret |-> Res("None", <<>>, <<>>)]

InitBuild ==
    /\ transformer \in [state : {"args"}, N : 0..MaxLayers, h : 1..MaxHeads,
                        d_model : 1..MaxDModel, seq_len : 1..MaxSeqLen,
                        ret : {Err("None")}]
    /\ \E s \in CallSites, len \in 1..MaxSeqLen :
        site = [state |-> "pending", line |-> s.line, attr |-> s.attr,
                args |-> s.args, len |-> len, ret |-> Res("None", <<>>, <<>>)]

\* The call build_transformer(.., seq_len, seq_len, N, h, d_model).
BuildTransformer ==
    /\ transformer.state = "args"
    /\ transformer' =
        [transformer EXCEPT
            !.state = "returned",
            !.ret = build_transformer(transformer.seq_len, transformer.seq_len,
                                      transformer.N, transformer.h, transformer.d_model,
                                      IdentityLinear(transformer.d_model))]
    /\ UNCHANGED <<site, decodeVars, att, forwardVars>>

\* One of the calls of src/train.py on the model that was built.
CallOnModel ==
    /\ transformer.state = "returned"
    /\ transformer.ret.error = "None"
    /\ site.state = "pending"
    /\ site' = [site EXCEPT
                   !.state = "returned",
                   !.ret = ModelCall(transformer.ret.value, site.attr, site.args, site.len)]
    /\ UNCHANGED <<transformer, decodeVars, att, forwardVars>>

\* ------------------------------------------- forward calls on components

\* the query of a MultiHeadAttentionBlock.forward call holds ForwardQueryLen
\* positions
ForwardQueryLen == 1

\* The linear layers a block may hold after initialisation.
Linears(n) ==
    {IdentityLinear(n),
     [W |-> [r \in 1..n |-> [c \in 1..n |-> 1]], b |-> [r \in 1..n |-> 1]]}

\* The attention blocks with one-entry heads (d_k = 1), all four layers drawn
\* alike.
AttentionBlocks ==
    UNION {{MultiHeadAttentionBlockInit(d, d, l, l, l, l).value : l \in Linears(d)} :
              d \in 1..2}

\* The positional tables that construct (d_model even).
PositionalEncodings ==
    {PositionalEncodingInit(d, n).value :
        d \in {e \in 1..MaxDModel : e % 2 = 0}, n \in 1..MaxSeqLen}

NoForward ==
    [op |-> "none", state |-> "idle", x |-> <<>>, kv |-> <<>>, mask |-> NoMask,
     dropout |-> [kind |-> "eval", keep |-> <<>>], ret |-> Err("None")]

ForwardIdle ==
    /\ pos_enc = PositionalEncodingInit(2, 1).value
    /\ mha = MultiHeadAttentionBlockInit(1, 1, IdentityLinear(1), IdentityLinear(1),
                                         IdentityLinear(1), IdentityLinear(1)).value
    /\ layer_norm = LayerNormalizationInit
    /\ fwd = NoForward

\* The arguments of a PositionalEncoding.forward call still to be made: an input
\* of any small shape.
PosArgs ==
    [op : {"pos"}, state : {"args"},
     x : [batch : 1..MaxBatch, len : 1..MaxInputLen, d_model : 1..MaxDModel],
     kv : {<<>>}, mask : {NoMask}, dropout : {[kind |-> "eval", keep |-> <<>>]},
     ret : {Err("None")}]

\* The arguments of a MultiHeadAttentionBlock.forward(q, k, v, mask) call on the
\* block `self`, with k = v as in the blocks' calls; self.dropout is in eval or
\* in train mode.
MhaArgs(self) ==
    [op : {"mha"}, state : {"args"},
     x : [1..ForwardQueryLen -> [1..self.d_model -> Entries]],
     kv : [1..KeyLen -> [1..self.d_model -> Entries]],
     mask : Masks(ForwardQueryLen, KeyLen),
     dropout : {d \in Dropouts(self.h, ForwardQueryLen, KeyLen) : d.kind # "None"},
     ret : {Err("None")}]

\* The arguments of a LayerNormalization.forward call: one token of two features.
NormArgs ==
    [op : {"norm"}, state : {"args"}, x : [1..2 -> Entries \cup {2, 3}],
     kv : {<<>>}, mask : {NoMask}, dropout : {[kind |-> "eval", keep |-> <<>>]},
     ret : {Err("None")}]

\* PositionalEncoding.forward, src/model.py:37-39: no attribute is assigned.
PosForward ==
    /\ fwd.op = "pos"
    /\ fwd.state = "args"
    /\ fwd' = [fwd EXCEPT !.state = "returned",
                          !.ret = PositionalEncodingForward(pos_enc, fwd.x)]
    /\ UNCHANGED <<pos_enc, mha, layer_norm, decodeVars, att, buildVars>>

\* MultiHeadAttentionBlock.forward, src/model.py:118-132.
MhaForward ==
    /\ fwd.op = "mha"
    /\ fwd.state = "args"
    /\ LET r == MultiHeadAttentionBlockForward(mha, fwd.x, fwd.kv, fwd.kv,
                                               fwd.mask, fwd.dropout)
       IN  /\ mha' = r.self
           /\ fwd' = [fwd EXCEPT !.state = "returned", !.ret = Ok(r.out)]
    /\ UNCHANGED <<pos_enc, layer_norm, decodeVars, att, buildVars>>

\* LayerNormalization.forward, src/model.py:61-76: no attribute is assigned.
NormForward ==
    /\ fwd.op = "norm"
    /\ fwd.state = "args"
    /\ fwd' = [fwd EXCEPT !.state = "returned",
                          !.ret = LayerNormalizationForward(layer_norm, fwd.x)]
    /\ UNCHANGED <<pos_enc, mha, layer_norm, decodeVars, att, buildVars>>

\* ------------------------------------------------------------ specifications

\* The decode loop is not running.
DecodeIdle ==
    /\ pc = "Start"
    /\ entry = "direct"
    /\ error = "None"
    /\ max_len = 0
    /\ batch = 1
    /\ encoder_output = 0
    /\ encodeCalls = 0
    /\ decoder_input = <<>>
    /\ decodeCalls = 0
    /\ decode_memory = 0
    /\ prefix_kept = TRUE
    /\ after_eos = FALSE

BuildIdle == transformer = NoTransformer /\ site = NoSite

\* greedy_decode and run_validation
Init == InitDecode /\ att = NoAttention /\ BuildIdle /\ ForwardIdle

Next ==
    \/ RunValidation
    \/ StartEncode
    \/ GenerateStep

Spec == Init /\ [][Next]_vars

\* the static attention routine
InitAttention == DecodeIdle /\ att \in AttentionArgs /\ BuildIdle /\ ForwardIdle

NextAttention == AttentionCall

SpecAttention == InitAttention /\ [][NextAttention]_vars

\* build_transformer and the calls made on the model it returns
InitBuildSpec == DecodeIdle /\ att = NoAttention /\ InitBuild /\ ForwardIdle

NextBuild ==
    \/ BuildTransformer
    \/ CallOnModel

SpecBuild == InitBuildSpec /\ [][NextBuild]_vars

\* PositionalEncoding.forward on the tables that construct
InitPos ==
    /\ DecodeIdle /\ att = NoAttention /\ BuildIdle
    /\ pos_enc \in PositionalEncodings
    /\ mha = MultiHeadAttentionBlockInit(1, 1, IdentityLinear(1), IdentityLinear(1),
                                         IdentityLinear(1), IdentityLinear(1)).value
    /\ layer_norm = LayerNormalizationInit
    /\ fwd \in PosArgs

NextPos == PosForward

SpecPos == InitPos /\ [][NextPos]_vars

\* one forward call on a component
InitForward ==
    /\ DecodeIdle /\ att = NoAttention /\ BuildIdle
    /\ pos_enc \in PositionalEncodings
    /\ mha \in AttentionBlocks
    /\ layer_norm = LayerNormalizationInit
    /\ \/ fwd \in PosArgs
       \/ fwd \in MhaArgs(mha)
       \/ fwd \in NormArgs

NextForward ==
    \/ PosForward
    \/ MhaForward
    \/ NormForward

SpecForward == InitForward /\ [][NextForward]_vars

\* ------------------------------------------------------------------- claims

\* C1: for every max_len, greedy_decode takes at most max_len decode steps
\* (model.decode calls) before it stops.
C1_AtMostMaxLenSteps == decodeCalls <= max_len

\* C2 as stated: for every max_len the target sequence never holds more than
\* max_len ids.
C2_LengthWithinMaxLen == Len(decoder_input) <= max_len

\* C2 amended: for every max_len >= 1 the target sequence never holds more than
\* max_len ids, in every state of the loop and when greedy_decode returns.
C2_LengthWithinMaxLenFromOne == (max_len >= 1) => (Len(decoder_input) <= max_len)

\* C2 witness: a run that stopped on the length test after appending ids.
C2_StoppedAtMaxLen ==
    /\ pc = "Done"
    /\ max_len >= 2
    /\ Len(decoder_input) = max_len
    /\ decodeCalls = max_len - 1
    /\ decoder_input[Len(decoder_input)] # eos_idx

\* C3: model.encode is called exactly once per run, in the Start state, and
\* every decode step is handed the memory that call returned.
C3_MemoryComputedOnce ==
    /\ encodeCalls <= 1
    /\ (pc \in {"Generating", "Done"}) => (encodeCalls = 1 /\ encoder_output = 1)
    /\ (decodeCalls > 0) => (decode_memory = 1 /\ decode_memory = encoder_output)

\* C3 witness: a run with several decode steps behind it.
C3_SeveralSteps == pc = "Done" /\ decodeCalls >= 2 /\ decode_memory = 1

\* C7: with a source batch whose size is not 1, greedy_decode takes no decode
\* step and returns nothing.
C7_NoDecodeStepUnlessBatchOne == (batch # 1) => (decodeCalls = 0 /\ pc # "Done")

\* C4: after a call of attention with a mask, the tensor the softmax was taken of
\* holds the fill value at every position the mask marks 0, and the returned
\* weight of every such key position is zero (below one thousandth), for every
\* head and query position (the weight is stated for the query positions that
\* may attend to some key: a row of fill values alone has a uniform softmax).
C4_MaskedKeysGetNoWeight ==
    (att.state = "returned" /\ att.mask.given) =>
        \A h \in DOMAIN att.ret.softmax_in :
        \A i \in DOMAIN att.ret.softmax_in[h] :
        \A j \in DOMAIN att.ret.softmax_in[h][i] :
            (att.mask.m[i][j] = 0) =>
                /\ att.ret.softmax_in[h][i][j] = MaskFill
                /\ (\E j2 \in DOMAIN att.mask.m[i] : att.mask.m[i][j2] # 0) =>
                    (att.ret.attention_scores[h][i][j] = 0)

\* C5: build_transformer fails whenever d_model is not divisible by h, and every
\* model it returns has d_model % h = 0 and blocks with d_k = d_model / h.
C5_BuildRejectsIndivisible ==
    (transformer.state = "returned") =>
        /\ (transformer.d_model % transformer.h # 0) => (transformer.ret.error # "None")
        /\ (transformer.ret.error = "None") =>
            /\ transformer.ret.value.d_model % transformer.ret.value.h = 0
            /\ \A i \in DOMAIN transformer.ret.value.encoder_blocks :
                transformer.ret.value.encoder_blocks[i].d_k * transformer.ret.value.h
                    = transformer.ret.value.d_model

\* C6: PositionalEncoding.forward on an input longer than the table ends in an
\* exception, for every table length.
C6_OverlongInputRaises ==
    (fwd.op = "pos" /\ fwd.state = "returned" /\ fwd.x.len > pos_enc.seq_len) =>
        (fwd.ret.error # "None")

\* C6 witness: a call on a one-row table with a longer input of the table's
\* width has raised.
C6_OverlongOnOneRowTable ==
    /\ fwd.op = "pos"
    /\ fwd.state = "returned"
    /\ pos_enc.seq_len = 1
    /\ fwd.x.len > 1
    /\ fwd.x.d_model = pos_enc.d_model
    /\ fwd.ret.error = "TypeError"

\* C8: a forward call leaves every field of every component unchanged.
C8_ForwardLeavesFieldsUnchanged ==
    [][mha' = mha /\ pos_enc' = pos_enc /\ layer_norm' = layer_norm]_vars

\* C9: forward reads only attributes construction defined, so every
\* LayerNormalization.forward call completes and returns one value per feature.
C9_NormForwardCompletes ==
    (fwd.op = "norm" /\ fwd.state = "returned") =>
        /\ LayerNormalizationReads \subseteq layer_norm.attrs
        /\ fwd.ret.error = "None"
        /\ Len(fwd.ret.value) = Len(fwd.x)

\* The argument a call binds to the parameter `name` (<<>> when it binds none).
BoundTo(call, name) ==
    LET ps == Parameters(call.attr)
    IN  IF \E k \in 1..Len(ps) : ps[k] = name /\ k <= Len(call.args)
        THEN call.args[CHOOSE k \in 1..Len(ps) : ps[k] = name]
        ELSE <<>>

\* C10: each call src/train.py makes for decoding and projecting (lines 37, 40,
\* 176, 177) names an operation the model defines and passes as many arguments as
\* it takes; a decode call binds the memory, the source mask and the target mask
\* to the parameters of those names, completes, and in every decoder block
\* self-attention runs on the embedded, position-encoded target under the target
\* mask and cross-attention takes the memory as key and value under the source
\* mask.
C10_DecodeCallsMatchModel ==
    (site.state = "returned" /\ site.line \in {37, 40, 176, 177}) =>
        /\ site.attr \in TransformerAttrs
        /\ Len(site.args) = Len(Parameters(site.attr))
        /\ (site.line \in {37, 176}) =>
            /\ BoundTo(site, "encoder_output") = <<"memory">>
            /\ BoundTo(site, "src_mask") = <<"src_mask">>
            /\ BoundTo(site, "tgt_mask") = <<"tgt_mask">>
            /\ site.ret.error = "None"
            /\ Len(site.ret.attn) = 2 * transformer.N
            /\ \A k \in 1..Len(site.ret.attn) :
                LET a == site.ret.attn[k]
                IN  /\ SubSeq(a.q, Len(a.q) - 2, Len(a.q)) = <<"pos", "tgt_embed", "tgt_ids">>
                    /\ (a.kind = "self") => (a.mask = <<"tgt_mask">>)
                    /\ (a.kind = "cross") =>
                        (a.k = <<"memory">> /\ a.v = <<"memory">> /\ a.mask = <<"src_mask">>)

\* C11: in greedy_decode no id is appended after an end-of-sequence id: among
\* the generated ids (positions 2 and up) the end-of-sequence id occurs only as
\* the last element, and only once the loop has stopped; every completed
\* Generating step kept the ids accumulated before it and appended exactly one
\* id, so the target holds the start id and one id per decode step.
C11_NothingAppendedAfterEos ==
    /\ after_eos = FALSE
    /\ prefix_kept = TRUE
    /\ (pc \in {"Generating", "Done"}) =>
        /\ Len(decoder_input) = decodeCalls + 1
        /\ decoder_input[1] = sos_idx
    /\ \A i \in 2..Len(decoder_input) :
        (decoder_input[i] = eos_idx) => (i = Len(decoder_input) /\ pc = "Done")

\* C11 witness: a run that appended other ids, then the end-of-sequence id, and
\* stopped on it before the length test could.
C11_StoppedOnEos ==
    /\ pc = "Done"
    /\ Len(decoder_input) >= 3
    /\ decoder_input[Len(decoder_input)] = eos_idx
    /\ decoder_input[2] # eos_idx
    /\ Len(decoder_input) # max_len

====
